---- MODULE Spec2Model ----
(***************************************************************************)
(* A model of telegram-to-md.py: the filename normaliser clean_filename,   *)
(* the markdown converter convert_tag_to_md, the title/date extractor, the *)
(* tag classifier and the message loop of convert_html_to_md.              *)
(*                                                                         *)
(* A Python str is a sequence of characters; a character is a one-letter   *)
(* TLA+ string, and a character TLA+ cannot write in a string literal is   *)
(* named by its code point ("u0060" is the backtick, "u00A0" the no-break  *)
(* space, "u1F600" an emoji, "u0434" a Cyrillic letter).  Python's None    *)
(* and '' are both falsy and the code only ever tests them for truth, so   *)
(* both are the empty sequence here; a missing element is NoneTag.         *)
(***************************************************************************)
EXTENDS Integers, Sequences, FiniteSets, TLC

VARIABLES
    messages,        \* soup.select('.message.default.clearfix'), in document order
    i,               \* number of records the for loop has consumed
    last_author,     \* line 166
    used_filenames,  \* line 169
    converted_count, \* line 170
    files,           \* the output directory: filename -> content written
    written,         \* history: one entry per f.write of line 232, in order
    reported,        \* the count printed by line 237, <<>> before it
    pc,              \* "loop" | "done" for convert_html_to_md, "idle" otherwise
    cf_text,         \* the argument handed to clean_filename
    cf_clean,        \* clean_filename(cf_text)
    cf_again,        \* clean_filename(cf_clean)
    cf_pc            \* "idle" | "start" | "once" | "twice"

vars == <<messages, i, last_author, used_filenames, converted_count, files,
          written, reported, pc, cf_text, cf_clean, cf_again, cf_pc>>

pipeline_vars == <<messages, i, last_author, used_filenames, converted_count,
                   files, written, reported, pc>>

clean_vars == <<cf_text, cf_clean, cf_again, cf_pc>>

(***************************************************************************)
(* Bounds of the model.                                                    *)
(***************************************************************************)
\* longest message list convert_html_to_md is run on
MaxMessages == 3
\* longest short text clean_filename is run on (every text up to this length)
MaxLen == 3
\* long texts are padded to lengths from MaxFilenameLen - PadSlack to MaxFilenameLen + 1
PadSlack == 3

(***************************************************************************)
(* Python str and re primitives.                                           *)
(***************************************************************************)
Min(S) == CHOOSE x \in S : \A y \in S : x <= y

Max(S) == CHOOSE x \in S : \A y \in S : x >= y

\* str.isspace / the regex class \s, restricted to the characters of the model
Whitespace == {" ", "\t", "\n", "\r", "\f", "u00A0"}

\* the line boundaries of str.splitlines, restricted to the characters of the model
LineBreaks == {"\n", "\r", "\f"}

\* str.strip()
strip(s) ==
    LET nz == {k \in 1..Len(s) : s[k] \notin Whitespace}
    IN  IF nz = {} THEN <<>> ELSE SubSeq(s, Min(nz), Max(nz))

\* ''.join(parts)
RECURSIVE join(_)
join(parts) ==
    IF parts = <<>> THEN <<>> ELSE Head(parts) \o join(Tail(parts))

\* sep.join(parts)
RECURSIVE join_with(_, _)
join_with(sep, parts) ==
    IF parts = <<>> THEN <<>>
    ELSE IF Len(parts) = 1 THEN Head(parts)
    ELSE Head(parts) \o sep \o join_with(sep, Tail(parts))

\* sub in s
Contains(sub, s) ==
    \E k \in 1..(Len(s) - Len(sub) + 1) : SubSeq(s, k, k + Len(sub) - 1) = sub

(***************************************************************************)
(* clean_filename, lines 7-25.                                             *)
(***************************************************************************)
\* the glyphs emoji.replace_emoji removes, restricted to the characters of the model
EmojiChars == {"u1F600"}

\* line 10: emoji.replace_emoji(text, '')
replace_emoji(text) == SelectSeq(text, LAMBDA c : c \notin EmojiChars)

\* the character class of line 13
InvalidChars == {"<", ">", ":", "\"", "/", "\\", "|", "?", "*", "\n", "\r"}

\* a variant of sub_invalid whose character class lacks the '*'
sub_invalid_keep_star(text) ==
    [k \in 1..Len(text) |->
        IF text[k] \in InvalidChars \ {"*"} THEN " " ELSE text[k]]

\* line 13: re.sub(r'[<>:"/\\|?*\n\r]', ' ', text)
sub_invalid(text) ==
    [k \in 1..Len(text) |-> IF text[k] \in InvalidChars THEN " " ELSE text[k]]

\* the character class of line 16
TrailingPunct == {".", ",", "!", "?", ";", ":"}

\* line 16: re.sub(r'[.,!?;:]+$', '', clean).  $ also matches before one final
\* "\n", and line 13 has left no "\n" by then.
sub_trailing_punct(clean) ==
    LET keep == {k \in 1..Len(clean) : clean[k] \notin TrailingPunct}
    IN  IF keep = {} THEN <<>> ELSE SubSeq(clean, 1, Max(keep))

\* line 19, first half: re.sub(r'\s+', ' ', clean)
sub_whitespace(clean) ==
    LET first == SelectSeq([k \in 1..Len(clean) |-> k],
                           LAMBDA k : \/ clean[k] \notin Whitespace
                                      \/ k = 1
                                      \/ clean[k - 1] \notin Whitespace)
    IN  [j \in 1..Len(first) |->
            IF clean[first[j]] \in Whitespace THEN " " ELSE clean[first[j]]]

\* lines 10-19: the text before the length limit is applied
cleaned_text(text) ==
    strip(sub_whitespace(sub_trailing_punct(sub_invalid(replace_emoji(text)))))

\* the length limit of lines 22-23
MaxFilenameLen == 100

\* a variant of rsplit_head that splits at the first space: s.split(' ', 1)[0]
split_head(s) ==
    LET sp == {k \in 1..Len(s) : s[k] = " "}
    IN  IF sp = {} THEN s ELSE SubSeq(s, 1, Min(sp) - 1)

\* line 23: s.rsplit(' ', 1)[0]
rsplit_head(s) ==
    LET sp == {k \in 1..Len(s) : s[k] = " "}
    IN  IF sp = {} THEN s ELSE SubSeq(s, 1, Max(sp) - 1)

\* a variant of truncate that slices one character too many: clean[:101]
truncate_off_by_one(clean) ==
    IF Len(clean) > MaxFilenameLen
    THEN rsplit_head(SubSeq(clean, 1, MaxFilenameLen + 1))
    ELSE clean

\* lines 21-23
truncate(clean) ==
    IF Len(clean) > MaxFilenameLen
    THEN rsplit_head(SubSeq(clean, 1, MaxFilenameLen))
    ELSE clean

clean_filename(text) == truncate(cleaned_text(text))

(***************************************************************************)
(* The parsed document.  A node of the tree is a record: a NavigableString *)
(* has name "#text" and its text; an element has its tag name, its href    *)
(* attribute ('' when it has none) and its children in order.  NoneTag is  *)
(* what select_one returns when nothing matches.                           *)
(***************************************************************************)
NoneTag == [name |-> "#none", text |-> <<>>, href |-> <<>>, children |-> <<>>]

Text(s) == [name |-> "#text", text |-> s, href |-> <<>>, children |-> <<>>]

El(n, ch) == [name |-> n, text |-> <<>>, href |-> <<>>, children |-> ch]

Link(h, ch) == [name |-> "a", text |-> <<>>, href |-> h, children |-> ch]

\* Tag.get_text(): the strings of the subtree, concatenated in document order
RECURSIVE get_text(_)
get_text(tag) ==
    IF tag.name = "#text" THEN tag.text
    ELSE join([k \in 1..Len(tag.children) |-> get_text(tag.children[k])])

\* str(n) for n >= 0, as the f-string of line 104 formats the item number
RECURSIVE str_int(_)
str_int(n) ==
    LET digit == <<"0", "1", "2", "3", "4", "5", "6", "7", "8", "9">>
    IN  IF n < 10 THEN <<digit[n + 1]>>
        ELSE str_int(n \div 10) \o <<digit[(n % 10) + 1]>>

\* child.find_all('li', recursive=False), lines 97 and 102
li_children(tag) == SelectSeq(tag.children, LAMBDA c : c.name = "li")

(***************************************************************************)
(* convert_tag_to_md, lines 65-116.                                        *)
(***************************************************************************)
RECURSIVE convert_tag_to_md(_)
convert_tag_to_md(tag) ==
    IF tag = NoneTag THEN <<>>
    ELSE
    LET part(child) ==
            CASE child.name = "#text" -> child.text
              [] child.name \in {"strong", "b"} ->
                    LET content == strip(convert_tag_to_md(child))
                    IN  IF content # <<>> THEN <<"*", "*">> \o content \o <<"*", "*">> ELSE <<>>
              [] child.name \in {"em", "i"} ->
                    LET content == strip(convert_tag_to_md(child))
                    IN  IF content # <<>> THEN <<"*">> \o content \o <<"*">> ELSE <<>>
              [] child.name = "code" ->
                    <<"u0060">> \o convert_tag_to_md(child) \o <<"u0060">>
              [] child.name = "pre" ->
                    <<"u0060", "u0060", "u0060", "\n">> \o strip(convert_tag_to_md(child)) \o <<"\n", "u0060", "u0060", "u0060">>
              [] child.name = "a" ->
                    LET text == strip(get_text(child))
                        href == child.href
                    IN  IF text # <<>> /\ href # <<>>
                        THEN <<"[">> \o text \o <<"]", "(">> \o href \o <<")">>
                        ELSE IF href # <<>> THEN href ELSE <<>>
              [] child.name = "br" -> <<"\n">>
              [] child.name = "ul" ->
                    LET items == li_children(child)
                    IN  join([k \in 1..Len(items) |->
                            <<"*", " ">> \o strip(convert_tag_to_md(items[k])) \o <<"\n">>])
              [] child.name = "ol" ->
                    LET items == li_children(child)
                    IN  join([k \in 1..Len(items) |->
                            str_int(k) \o <<".", " ">>
                              \o strip(convert_tag_to_md(items[k])) \o <<"\n">>])
              [] child.name = "li" -> convert_tag_to_md(child)
              [] child.name = "div" ->
                    LET div_content == convert_tag_to_md(child)
                    IN  IF div_content # <<>> THEN div_content \o <<"\n">> ELSE <<>>
              [] OTHER -> convert_tag_to_md(child)
    IN  join([k \in 1..Len(tag.children) |-> part(tag.children[k])])

(***************************************************************************)
(* extract_first_meaningful_line, lines 48-63.                             *)
(***************************************************************************)
\* text.splitlines().  "\r\n" is one boundary in Python and two here: the extra
\* line is empty, and line 51 drops empty lines.
RECURSIVE splitlines(_)
splitlines(text) ==
    IF text = <<>> THEN <<>>
    ELSE LET brk == {k \in 1..Len(text) : text[k] \in LineBreaks}
         IN  IF brk = {} THEN <<text>>
             ELSE <<SubSeq(text, 1, Min(brk) - 1)>>
                    \o splitlines(SubSeq(text, Min(brk) + 1, Len(text)))

\* line 51
nonblank_lines(text) ==
    LET all == splitlines(text)
        stripped == [k \in 1..Len(all) |-> strip(all[k])]
    IN  SelectSeq(stripped, LAMBDA line : line # <<>>)

\* the length a line needs to be meaningful, line 55
MinTitleLen == 10

extract_first_meaningful_line(text) ==
    LET lines == nonblank_lines(text)
        long == {k \in 1..Len(lines) : Len(lines[k]) >= MinTitleLen}
    IN  IF long # {} THEN lines[Min(long)]
        ELSE IF lines # <<>> THEN lines[1]
        ELSE <<>>

(***************************************************************************)
(* The date of lines 135-143.                                              *)
(***************************************************************************)
Digits == <<"0", "1", "2", "3", "4", "5", "6", "7", "8", "9">>

IsDigit(c) == \E d \in 1..10 : Digits[d] = c

DigitValue(c) == (CHOOSE d \in 1..10 : Digits[d] = c) - 1

\* int(s) for a string of digits
RECURSIVE int_of(_)
int_of(s) ==
    IF s = <<>> THEN 0
    ELSE 10 * int_of(SubSeq(s, 1, Len(s) - 1)) + DigitValue(s[Len(s)])

\* s.split(): the maximal runs of characters that are not whitespace
RECURSIVE split(_)
split(s) ==
    LET nz == {k \in 1..Len(s) : s[k] \notin Whitespace}
    IN  IF nz = {} THEN <<>>
        ELSE LET from == Min(nz)
                 ws == {k \in from..Len(s) : s[k] \in Whitespace}
                 to == IF ws = {} THEN Len(s) ELSE Min(ws) - 1
             IN  <<SubSeq(s, from, to)>> \o split(SubSeq(s, to + 1, Len(s)))

\* s.split('.')
RECURSIVE split_dot(_)
split_dot(s) ==
    LET dots == {k \in 1..Len(s) : s[k] = "."}
    IN  IF dots = {} THEN <<s>>
        ELSE <<SubSeq(s, 1, Min(dots) - 1)>>
               \o split_dot(SubSeq(s, Min(dots) + 1, Len(s)))

IsLeap(y) == (y % 4 = 0 /\ y % 100 # 0) \/ y % 400 = 0

DaysInMonth(y, m) ==
    IF m = 2 THEN (IF IsLeap(y) THEN 29 ELSE 28)
    ELSE IF m \in {4, 6, 9, 11} THEN 30 ELSE 31

\* datetime.strptime(token, '%d.%m.%Y'): %d is 1 or 2 digits naming 1..31, %m is
\* 1 or 2 digits naming 1..12, %Y is exactly 4 digits, nothing may follow, and the
\* day must exist in the month.  <<>> stands for ValueError, else <<y, m, d>>.
strptime(token) ==
    LET f == split_dot(token)
        digits(s) == \A k \in 1..Len(s) : IsDigit(s[k])
    IN  IF /\ Len(f) = 3
           /\ Len(f[1]) \in {1, 2} /\ digits(f[1]) /\ int_of(f[1]) \in 1..31
           /\ Len(f[2]) \in {1, 2} /\ digits(f[2]) /\ int_of(f[2]) \in 1..12
           /\ Len(f[3]) = 4 /\ digits(f[3]) /\ int_of(f[3]) >= 1
           /\ int_of(f[1]) <= DaysInMonth(int_of(f[3]), int_of(f[2]))
        THEN <<int_of(f[3]), int_of(f[2]), int_of(f[1])>>
        ELSE <<>>

\* n in decimal, zero-padded to width w
pad_int(n, w) ==
    LET s == str_int(n)
    IN  [k \in 1..(w - Len(s)) |-> "0"] \o s

\* date_obj.strftime('%Y-%m-%d'), for the years 1000..9999 of the model's dates
strftime(date) ==
    pad_int(date[1], 4) \o <<"-">> \o pad_int(date[2], 2) \o <<"-">> \o pad_int(date[3], 2)

\* lines 136-143: date_div is the title attribute of the .date element as a
\* one-element sequence, <<>> when the message has no .date element
extract_date(date_div) ==
    IF date_div = <<>> THEN <<>>
    ELSE LET tokens == split(date_div[1])
         IN  IF tokens = <<>> THEN <<>>                       \* IndexError
             ELSE IF strptime(tokens[1]) = <<>> THEN <<>>     \* ValueError
             ELSE strftime(strptime(tokens[1]))

(***************************************************************************)
(* extract_title_and_date, lines 118-146.  A message is a record of what   *)
(* select_one finds in it: text_div ('.text'), from_name ('.from_name')    *)
(* and date (the title attribute of '.date').                              *)
(***************************************************************************)
\* lines 127-130
first_line_of(message) ==
    extract_first_meaningful_line(convert_tag_to_md(message.text_div))

\* the first element of the returned pair
extract_title(message) ==
    IF message.text_div = NoneTag THEN <<>>
    ELSE IF first_line_of(message) = <<>> THEN <<>>
    ELSE clean_filename(first_line_of(message))

\* the second element of the returned pair
extract_date_str(message) ==
    IF message.text_div = NoneTag THEN <<>>
    ELSE IF first_line_of(message) = <<>> THEN <<>>
    ELSE extract_date(message.date)

(***************************************************************************)
(* get_tags_from_content, lines 27-46.                                     *)
(***************************************************************************)
UpperChars == <<"A", "B", "C", "D", "E", "F", "G", "H", "I", "J", "K", "L", "M", "N", "O", "P", "Q", "R", "S", "T", "U", "V", "W", "X", "Y", "Z">>
                \o <<"u0410", "u0411", "u0412", "u0413", "u0414", "u0415", "u0416", "u0417", "u0418", "u0419", "u041A", "u041B", "u041C", "u041D", "u041E", "u041F", "u0420", "u0421", "u0422", "u0423", "u0424", "u0425", "u0426", "u0427", "u0428", "u0429", "u042A", "u042B", "u042C", "u042D", "u042E", "u042F">>

LowerChars == <<"a", "b", "c", "d", "e", "f", "g", "h", "i", "j", "k", "l", "m", "n", "o", "p", "q", "r", "s", "t", "u", "v", "w", "x", "y", "z">>
                \o <<"u0430", "u0431", "u0432", "u0433", "u0434", "u0435", "u0436", "u0437", "u0438", "u0439", "u043A", "u043B", "u043C", "u043D", "u043E", "u043F", "u0440", "u0441", "u0442", "u0443", "u0444", "u0445", "u0446", "u0447", "u0448", "u0449", "u044A", "u044B", "u044C", "u044D", "u044E", "u044F">>

\* str.lower(), on the Latin and Cyrillic letters
lower(s) ==
    [k \in 1..Len(s) |->
        IF \E j \in 1..Len(UpperChars) : UpperChars[j] = s[k]
        THEN LowerChars[CHOOSE j \in 1..Len(UpperChars) : UpperChars[j] = s[k]]
        ELSE s[k]]

DesignTerms == {<<"d", "e", "s", "i", "g", "n">>, <<"u0434", "u0438", "u0437", "u0430", "u0439", "u043D">>, <<"u", "x">>, <<"u", "i">>}

ProductTerms == {<<"p", "r", "o", "d", "u", "c", "t">>, <<"u043F", "u0440", "u043E", "u0434", "u0430", "u043A", "u0442">>, <<"u043F", "u0440", "u043E", "u0434", "u0443", "u043A", "u0442">>}

ManagementTerms == {<<"t", "e", "a", "m">>, <<"u0442", "u0438", "u043C", "u043B", "u0438", "u0434">>, <<"u043A", "u043E", "u043C", "u0430", "u043D", "u0434">>}

\* the result is sorted(list(tags)): the three tags in alphabetical order
get_tags_from_content(text, author) ==
    LET search_text == lower(text \o <<" ">> \o author)
        any(terms) == \E term \in terms : Contains(term, search_text)
    IN  (IF any(DesignTerms) THEN <<<<"d", "e", "s", "i", "g", "n">>>> ELSE <<>>)
          \o (IF any(ManagementTerms) THEN <<<<"m", "a", "n", "a", "g", "e", "m", "e", "n", "t">>>> ELSE <<>>)
          \o (IF any(ProductTerms) THEN <<<<"p", "r", "o", "d", "u", "c", "t">>>> ELSE <<>>)

(***************************************************************************)
(* One iteration of the loop of convert_html_to_md, lines 172-234.         *)
(***************************************************************************)
\* line 175
body_empty(message) ==
    \/ message.text_div = NoneTag
    \/ strip(get_text(message.text_div)) = <<>>

\* line 181
resolve_author(message) ==
    IF message.from_name # NoneTag
    THEN strip(get_text(message.from_name))
    ELSE last_author

\* a variant of sub_newlines that leaves runs of 3 alone: r'\n{4,}'
RECURSIVE sub_newlines_from_four(_)
sub_newlines_from_four(s) ==
    IF s = <<>> THEN <<>>
    ELSE LET other == {k \in 1..Len(s) : s[k] # "\n"}
             run == IF other = {} THEN Len(s) ELSE Min(other) - 1
             breaks == {k \in 1..Len(s) : s[k] = "\n"}
             plain == IF breaks = {} THEN Len(s) ELSE Min(breaks) - 1
         IN  IF run >= 4
             THEN <<"\n", "\n">> \o sub_newlines_from_four(SubSeq(s, run + 1, Len(s)))
             ELSE IF run > 0
                  THEN SubSeq(s, 1, run)
                         \o sub_newlines_from_four(SubSeq(s, run + 1, Len(s)))
             ELSE SubSeq(s, 1, plain)
                    \o sub_newlines_from_four(SubSeq(s, plain + 1, Len(s)))

\* line 185: re.sub(r'\n{3,}', '\n\n', md_content), scanning from the left
RECURSIVE sub_newlines(_)
sub_newlines(s) ==
    IF s = <<>> THEN <<>>
    ELSE LET other == {k \in 1..Len(s) : s[k] # "\n"}
             run == IF other = {} THEN Len(s) ELSE Min(other) - 1
             breaks == {k \in 1..Len(s) : s[k] = "\n"}
             plain == IF breaks = {} THEN Len(s) ELSE Min(breaks) - 1
         IN  IF run >= 3 THEN <<"\n", "\n">> \o sub_newlines(SubSeq(s, run + 1, Len(s)))
             ELSE IF run > 0
                  THEN SubSeq(s, 1, run) \o sub_newlines(SubSeq(s, run + 1, Len(s)))
             ELSE SubSeq(s, 1, plain) \o sub_newlines(SubSeq(s, plain + 1, Len(s)))

\* lines 184-185
md_content_of(message) == sub_newlines(convert_tag_to_md(message.text_div))

\* line 188
tags_of(message) ==
    get_tags_from_content(md_content_of(message), resolve_author(message))

\* line 196
filename_of(message) == extract_title(message) \o <<".", "m", "d">>

\* a variant of frontmatter_of that closes the block with '---' and no blank line
frontmatter_no_blank_line(message) ==
    LET date_str == extract_date_str(message)
        tags == tags_of(message)
    IN  <<<<"-", "-", "-">>>>
          \o (IF date_str # <<>> THEN <<<<"d", "a", "t", "e", ":", " ">> \o date_str>> ELSE <<>>)
          \o <<<<"a", "u", "t", "h", "o", "r", ":", " ", "\"">> \o resolve_author(message) \o <<"\"">>>>
          \o (IF tags # <<>>
              THEN <<<<"t", "a", "g", "s", ":">>>> \o [k \in 1..Len(tags) |-> <<" ", " ", "-", " ">> \o tags[k]]
              ELSE <<>>)
          \o <<<<"-", "-", "-">>, md_content_of(message)>>

\* lines 217-225
frontmatter_of(message) ==
    LET date_str == extract_date_str(message)
        tags == tags_of(message)
    IN  <<<<"-", "-", "-">>>>
          \o (IF date_str # <<>> THEN <<<<"d", "a", "t", "e", ":", " ">> \o date_str>> ELSE <<>>)
          \o <<<<"a", "u", "t", "h", "o", "r", ":", " ", "\"">> \o resolve_author(message) \o <<"\"">>>>
          \o (IF tags # <<>>
              THEN <<<<"t", "a", "g", "s", ":">>>> \o [k \in 1..Len(tags) |-> <<" ", " ", "-", " ">> \o tags[k]]
              ELSE <<>>)
          \o <<<<"-", "-", "-", "\n">>, md_content_of(message)>>

\* line 227
final_content_of(message) == join_with(<<"\n">>, frontmatter_of(message))

\* the record the loop is at
message_at == messages[i + 1]

\* lines 175-176
SkipEmptyBody ==
    /\ pc = "loop"
    /\ i < Len(messages)
    /\ body_empty(message_at)
    /\ i' = i + 1
    /\ UNCHANGED <<messages, last_author, used_filenames, converted_count,
                   files, written, reported, pc>>
    /\ UNCHANGED clean_vars

\* lines 179-193
SkipNoTitle ==
    /\ pc = "loop"
    /\ i < Len(messages)
    /\ ~body_empty(message_at)
    /\ extract_title(message_at) = <<>>
    /\ i' = i + 1
    /\ UNCHANGED <<messages, last_author, used_filenames, converted_count,
                   files, written, reported, pc>>
    /\ UNCHANGED clean_vars

\* a variant of SkipDuplicate that writes the later record over the earlier one
SkipDuplicate_overwrite ==
    /\ pc = "loop"
    /\ i < Len(messages)
    /\ ~body_empty(message_at)
    /\ extract_title(message_at) # <<>>
    /\ filename_of(message_at) \in used_filenames
    /\ files' = [files EXCEPT ![filename_of(message_at)] = final_content_of(message_at)]
    /\ written' = Append(written,
                         [idx |-> i + 1,
                          filename |-> filename_of(message_at),
                          author |-> resolve_author(message_at),
                          md_content |-> md_content_of(message_at),
                          final_content |-> final_content_of(message_at)])
    /\ i' = i + 1
    /\ UNCHANGED <<messages, last_author, used_filenames, converted_count,
                   reported, pc>>
    /\ UNCHANGED clean_vars

\* a variant of SkipDuplicate that writes the later record under a numbered name,
\* as the code commented out at lines 198-207 did
SkipDuplicate_renamed ==
    /\ pc = "loop"
    /\ i < Len(messages)
    /\ ~body_empty(message_at)
    /\ extract_title(message_at) # <<>>
    /\ filename_of(message_at) \in used_filenames
    /\ LET name(c) == extract_title(message_at) \o <<"_">> \o str_int(c) \o <<".", "m", "d">>
           counter == Min({c \in 1..(Len(messages) + 1) : name(c) \notin used_filenames})
       IN  /\ used_filenames' = used_filenames \cup {name(counter)}
           /\ files' = [f \in DOMAIN files \cup {name(counter)} |->
                           IF f = name(counter)
                           THEN final_content_of(message_at)
                           ELSE files[f]]
           /\ written' = Append(written,
                                [idx |-> i + 1,
                                 filename |-> name(counter),
                                 author |-> resolve_author(message_at),
                                 md_content |-> md_content_of(message_at),
                                 final_content |-> final_content_of(message_at)])
    /\ converted_count' = converted_count + 1
    /\ i' = i + 1
    /\ UNCHANGED <<messages, last_author, reported, pc>>
    /\ UNCHANGED clean_vars

\* lines 179-212
SkipDuplicate ==
    /\ pc = "loop"
    /\ i < Len(messages)
    /\ ~body_empty(message_at)
    /\ extract_title(message_at) # <<>>
    /\ filename_of(message_at) \in used_filenames
    /\ i' = i + 1
    /\ UNCHANGED <<messages, last_author, used_filenames, converted_count,
                   files, written, reported, pc>>
    /\ UNCHANGED clean_vars

\* a variant of Emit that leaves the filename out of used_filenames
Emit_unregistered ==
    /\ pc = "loop"
    /\ i < Len(messages)
    /\ ~body_empty(message_at)
    /\ extract_title(message_at) # <<>>
    /\ filename_of(message_at) \notin used_filenames
    /\ files' = [f \in DOMAIN files \cup {filename_of(message_at)} |->
                    IF f = filename_of(message_at)
                    THEN final_content_of(message_at)
                    ELSE files[f]]
    /\ written' = Append(written,
                         [idx |-> i + 1,
                          filename |-> filename_of(message_at),
                          author |-> resolve_author(message_at),
                          md_content |-> md_content_of(message_at),
                          final_content |-> final_content_of(message_at)])
    /\ converted_count' = converted_count + 1
    /\ i' = i + 1
    /\ UNCHANGED <<messages, last_author, used_filenames, reported, pc>>
    /\ UNCHANGED clean_vars

\* lines 179-234
Emit ==
    /\ pc = "loop"
    /\ i < Len(messages)
    /\ ~body_empty(message_at)
    /\ extract_title(message_at) # <<>>
    /\ filename_of(message_at) \notin used_filenames
    /\ used_filenames' = used_filenames \cup {filename_of(message_at)}
    /\ files' = [f \in DOMAIN files \cup {filename_of(message_at)} |->
                    IF f = filename_of(message_at)
                    THEN final_content_of(message_at)
                    ELSE files[f]]
    /\ written' = Append(written,
                         [idx |-> i + 1,
                          filename |-> filename_of(message_at),
                          author |-> resolve_author(message_at),
                          md_content |-> md_content_of(message_at),
                          final_content |-> final_content_of(message_at)])
    /\ converted_count' = converted_count + 1
    /\ i' = i + 1
    /\ UNCHANGED <<messages, last_author, reported, pc>>
    /\ UNCHANGED clean_vars

\* line 237
Report ==
    /\ pc = "loop"
    /\ i = Len(messages)
    /\ reported' = <<converted_count>>
    /\ pc' = "done"
    /\ UNCHANGED <<messages, i, last_author, used_filenames, converted_count,
                   files, written>>
    /\ UNCHANGED clean_vars

(***************************************************************************)
(* The message records convert_html_to_md is run on.                       *)
(***************************************************************************)
Br == El("br", <<>>)

Li(s) == El("li", <<Text(s)>>)

\* <b>Great design tips</b><br>for teams
BodyTips ==
    El("div", <<El("b", <<Text(<<"G", "r", "e", "a", "t", " ", "d", "e", "s", "i", "g", "n", " ", "t", "i", "p", "s">>)>>), Br, Text(<<"f", "o", "r", " ", "t", "e", "a", "m", "s">>)>>)

\* the same first line without the markup
BodyPlain == El("div", <<Text(<<"G", "r", "e", "a", "t", " ", "d", "e", "s", "i", "g", "n", " ", "t", "i", "p", "s", ":">>), Br, Text(<<"1">>)>>)

\* only whitespace
BodyBlank == El("div", <<Text(<<" ">>), Br, Text(<<"\t">>)>>)

\* a link with text and no href: get_text sees the text, the converter emits nothing
BodyDeadLink == El("div", <<Link(<<>>, <<Text(<<"s", "e", "e", " ", "h", "e", "r", "e">>)>>), Br>>)

\* a line that the normaliser empties
BodyPunct == El("div", <<Text(<<"?", "!">>)>>)

\* runs of 5, 1, 2 and 3 line breaks
BodyGaps ==
    El("div", <<Text(<<"s", "h", "o", "r", "t">>), Br, Br, Br, Br, Br, Text(<<"S", "o", "m", "e", " ", "l", "o", "n", "g", "e", "r", " ", "l", "i", "n", "e">>), Br,
                Text(<<"a">>), Br, Br, Text(<<"b">>), Br, Br, Br, Text(<<"c">>)>>)

\* every kind of element the converter knows
BodyRich ==
    El("div", <<El("div", <<El("i", <<Text(<<"T", "e", "a", "m">>)>>), Text(<<" ">>),
                            El("code", <<Text(<<"x">>)>>)>>),
                El("ul", <<Li(<<"o", "n", "e", " ">>), Text(<<" ">>), Li(<<"t", "w", "o">>)>>),
                El("ol", <<Li(<<"p">>)>>),
                El("pre", <<Text(<<" ", "y", " ">>)>>),
                Link(<<"h", "t", "t", "p", ":", "/", "/", "x">>, <<Text(<<"l", "i", "n", "k">>)>>),
                Link(<<"h">>, <<>>),
                El("span", <<El("em", <<Text(<<" ">>)>>), Text(<<"s">>)>>),
                Li(<<"z">>),
                El("strong", <<Text(<<"u043F", "u0440", "u043E", "u0434", "u0443", "u043A", "u0442">>)>>)>>)

Name(s) == El("div", <<Text(s)>>)

Messages ==
    { [text_div |-> BodyTips,     from_name |-> Name(<<"\n", "J", "a", "n", "e", "\n">>), date |-> <<<<"0", "5", ".", "0", "3", ".", "2", "0", "2", "4", " ", "1", "2", ":", "3", "0", ":", "0", "0">>>>],
      [text_div |-> BodyPlain,    from_name |-> NoneTag,          date |-> <<>>],
      [text_div |-> BodyPlain,    from_name |-> Name(<<"B", "o", "b">>),      date |-> <<<<"2", "9", ".", "0", "2", ".", "2", "0", "2", "4">>>>],
      [text_div |-> BodyBlank,    from_name |-> Name(<<"B", "o", "b">>),      date |-> <<<<"0", "5", ".", "0", "3", ".", "2", "0", "2", "4", " ", "1", "2", ":", "3", "0", ":", "0", "0">>>>],
      [text_div |-> BodyDeadLink, from_name |-> NoneTag,          date |-> <<<<"2", "0", "2", "4", "-", "0", "3", "-", "0", "5">>>>],
      [text_div |-> BodyPunct,    from_name |-> Name(<<"\n", "J", "a", "n", "e", "\n">>), date |-> <<<<>>>>],
      [text_div |-> BodyGaps,     from_name |-> Name(<<"B", "o", "b">>),      date |-> <<<<"3", "1", ".", "0", "2", ".", "2", "0", "2", "4", " ", "1", "0", ":", "0", "0">>>>],
      [text_div |-> BodyGaps,     from_name |-> NoneTag,          date |-> <<<<"5", ".", "3", ".", "2", "0", "2", "4">>>>],
      [text_div |-> BodyRich,     from_name |-> NoneTag,          date |-> <<<<" ", " ", "0", "1", ".", "1", "2", ".", "1", "9", "9", "9", " ", " ", "2", "3", ":", "5", "9", ":", "5", "9">>>>],
      [text_div |-> NoneTag,      from_name |-> Name(<<"\n", "J", "a", "n", "e", "\n">>), date |-> <<>>] }

Init ==
    /\ messages \in UNION {[1..n -> Messages] : n \in 0..MaxMessages}
    /\ i = 0
    /\ last_author = <<"U", "n", "k", "n", "o", "w", "n", " ", "A", "u", "t", "h", "o", "r">>
    /\ used_filenames = {}
    /\ converted_count = 0
    /\ files = <<>>
    /\ written = <<>>
    /\ reported = <<>>
    /\ pc = "loop"
    /\ cf_text = <<>>
    /\ cf_clean = <<>>
    /\ cf_again = <<>>
    /\ cf_pc = "idle"

Next == SkipEmptyBody \/ SkipNoTitle \/ SkipDuplicate \/ Emit \/ Report

Spec == Init /\ [][Next]_vars

(***************************************************************************)
(* The texts clean_filename is run on.                                     *)
(***************************************************************************)
CleanAlphabet == {"a", " ", ".", "?", "*", "\n", "\t", "u1F600"}

ShortTexts == UNION {[1..n -> CleanAlphabet] : n \in 0..MaxLen}

LongAlphabet == {"a", " ", ",", "*"}

LongEnds == UNION {[1..n -> LongAlphabet] : n \in 0..2}

Pad(n) == [k \in 1..n |-> "a"]

LongTexts ==
    {h \o Pad(n) \o t : h \in LongEnds, t \in LongEnds,
                        n \in (MaxFilenameLen - PadSlack)..(MaxFilenameLen + 1)}

(***************************************************************************)
(* Running clean_filename once, and again on its own result.               *)
(***************************************************************************)
PipelineIdle ==
    /\ messages = <<>>
    /\ i = 0
    /\ last_author = <<"U", "n", "k", "n", "o", "w", "n", " ", "A", "u", "t", "h", "o", "r">>
    /\ used_filenames = {}
    /\ converted_count = 0
    /\ files = <<>>
    /\ written = <<>>
    /\ reported = <<>>
    /\ pc = "idle"

InitClean ==
    /\ PipelineIdle
    /\ cf_text \in ShortTexts \cup LongTexts
    /\ cf_clean = <<>>
    /\ cf_again = <<>>
    /\ cf_pc = "start"

CleanOnce ==
    /\ cf_pc = "start"
    /\ cf_clean' = clean_filename(cf_text)
    /\ cf_pc' = "once"
    /\ UNCHANGED <<cf_text, cf_again>>
    /\ UNCHANGED pipeline_vars

CleanAgain ==
    /\ cf_pc = "once"
    /\ cf_again' = clean_filename(cf_clean)
    /\ cf_pc' = "twice"
    /\ UNCHANGED <<cf_text, cf_clean>>
    /\ UNCHANGED pipeline_vars

NextClean == CleanOnce \/ CleanAgain

SpecClean == InitClean /\ [][NextClean]_vars

(***************************************************************************)
(* Properties of clean_filename, checked under SpecClean.                  *)
(***************************************************************************)
HasChar(c, s) == \E k \in 1..Len(s) : s[k] = c

IsPrefix(p, s) == Len(p) <= Len(s) /\ SubSeq(s, 1, Len(p)) = p

\* C4: clean_filename is idempotent: cleaning an already cleaned text returns it
\* unchanged.
C4_Idempotent == cf_pc = "twice" => cf_again = cf_clean

\* C5: the result of clean_filename holds none of < > : " / \ | ? * nor a newline
\* or carriage return, has no leading or trailing whitespace, is at most 100
\* characters long, and is empty for the empty input.
C5_SafeBoundedName ==
    cf_pc \in {"once", "twice"} =>
        /\ \A c \in {"<", ">", ":", "\"", "/", "\\", "|", "?", "*", "\n", "\r"} :
              ~HasChar(c, cf_clean)
        /\ cf_clean # <<>> =>
              /\ cf_clean[1] \notin Whitespace
              /\ cf_clean[Len(cf_clean)] \notin Whitespace
        /\ Len(cf_clean) <= 100
        /\ cf_text = <<>> => cf_clean = <<>>

\* a text over the limit, with removed characters and leading whitespace, cleaned
\* to a name that is not empty
C5_Witness ==
    /\ cf_pc = "once"
    /\ Len(cf_text) > 100
    /\ cf_text[1] = " "
    /\ HasChar("*", cf_text)
    /\ cf_clean # <<>>

\* C9 as stated: whenever the cleaned text is longer than 100 characters, the
\* result is a prefix of it and the character that followed the result is a space.
C9_EndsAtWordBoundary ==
    (cf_pc \in {"once", "twice"} /\ Len(cleaned_text(cf_text)) > 100) =>
        /\ IsPrefix(cf_clean, cleaned_text(cf_text))
        /\ cleaned_text(cf_text)[Len(cf_clean) + 1] = " "

\* C9 as amended: whenever the cleaned text is longer than 100 characters, the
\* result is a prefix of it; when its first 100 characters hold a space the result
\* ends right before the last such space, and when they hold none the result is
\* those 100 characters, whatever follows them.
C9_Truncation ==
    (cf_pc \in {"once", "twice"} /\ Len(cleaned_text(cf_text)) > 100) =>
        LET c == cleaned_text(cf_text)
        IN  /\ IsPrefix(cf_clean, c)
            /\ IF \E k \in 1..100 : c[k] = " "
               THEN /\ Len(cf_clean) < 100
                    /\ c[Len(cf_clean) + 1] = " "
                    /\ \A k \in (Len(cf_clean) + 2)..100 : c[k] # " "
               ELSE Len(cf_clean) = 100

\* a cleaned text over the limit with two spaces in its first 100 characters, cut
\* back to the last of them
C9_Witness ==
    /\ cf_pc = "once"
    /\ Len(cleaned_text(cf_text)) > 100
    /\ Cardinality({k \in 1..100 : cleaned_text(cf_text)[k] = " "}) = 2
    /\ Len(cf_clean) > 90

(***************************************************************************)
(* Properties of convert_html_to_md, checked under Spec.                   *)
(***************************************************************************)
\* for each record of the catalogue, whether line 175 lets it through
has_body == [m \in Messages |-> ~body_empty(m)]

\* for each record of the catalogue, the filename line 196 derives for it, <<>>
\* when the record is skipped before that line
derived == [m \in Messages |->
              IF body_empty(m) \/ extract_title(m) = <<>> THEN <<>>
              ELSE filename_of(m)]

\* for each record of the catalogue, its first meaningful line, <<>> when it has none
first_lines == [m \in Messages |->
                  IF m.text_div = NoneTag THEN <<>> ELSE first_line_of(m)]

\* for each record of the catalogue, the title clean_filename gives its first line
titles == [m \in Messages |->
             IF first_lines[m] = <<>> THEN <<>> ELSE clean_filename(first_lines[m])]

\* for each record of the catalogue, the converted text of line 184
converted == [m \in Messages |-> convert_tag_to_md(m.text_div)]

\* the earlier records that went through author resolution with an author element
explicit_before(idx) ==
    {k \in 1..(idx - 1) : messages[k].from_name # NoneTag /\ has_body[messages[k]]}

\* C1: a record with no author element is given the author of the most recent
\* earlier record that supplied one, and "Unknown Author" only when none did.
C1_AuthorCarryForward ==
    \A n \in 1..Len(written) :
        LET w == written[n]
            before == explicit_before(w.idx)
        IN  messages[w.idx].from_name = NoneTag =>
                w.author = IF before = {} THEN <<"U", "n", "k", "n", "o", "w", "n", " ", "A", "u", "t", "h", "o", "r">>
                           ELSE strip(get_text(messages[Max(before)].from_name))

\* record k reaches line 196 with filename f
derives(k, f) == derived[messages[k]] # <<>> /\ derived[messages[k]] = f

\* C2: of the records processed so far that derive one filename, only the first in
\* document order is written: the file holds what was written for it, no later
\* record writes or overwrites it, and the scan goes on to the end of the list.
C2_FirstWins ==
    /\ \A k \in 1..i :
          derived[messages[k]] # <<>> =>
              LET f == derived[messages[k]]
                  first == Min({j \in 1..i : derives(j, f)})
                  writes == {n \in 1..Len(written) : written[n].filename = f}
              IN  /\ Cardinality(writes) = 1
                  /\ \A n \in writes :
                        /\ written[n].idx = first
                        /\ f \in DOMAIN files
                        /\ files[f] = written[n].final_content
    /\ pc = "done" => i = Len(messages)

\* two records with one filename and different contents, and a record after them
\* that was written
C2_Witness ==
    \E j, k, l \in 1..i :
        /\ j < k /\ k < l
        /\ derives(j, derived[messages[j]])
        /\ derives(k, derived[messages[j]])
        /\ converted[messages[j]] # converted[messages[k]]
        /\ \E n \in 1..Len(written) : written[n].idx = l

\* the records with a non-empty body, line 175
nonempty_bodies == {k \in 1..Len(messages) : has_body[messages[k]]}

\* the first meaningful line of record k, <<>> when it has none
line_of(k) == first_lines[messages[k]]

\* the title record k normalizes to; only read when line_of(k) is not <<>>
norm_title(k) == titles[messages[k]]

\* C3 as stated: the number of documents written is at most the number of records
\* with a non-empty body, and strictly smaller whenever two records normalize to
\* the same title or some record has no non-blank line at all.
C3_FewerDocuments ==
    pc = "done" =>
        /\ Len(written) <= Cardinality(nonempty_bodies)
        /\ (\/ \E j, k \in 1..Len(messages) :
                  /\ j < k
                  /\ line_of(j) # <<>> /\ line_of(k) # <<>>
                  /\ norm_title(j) = norm_title(k)
            \/ \E k \in 1..Len(messages) : line_of(k) = <<>>)
           => Len(written) < Cardinality(nonempty_bodies)

\* C3 as amended: the number of documents written is at most the number of records
\* with a non-empty body, and strictly smaller whenever two records with non-empty
\* bodies normalize to the same title or some record with a non-empty body has no
\* non-blank line in its converted text.
C3_FewerDocumentsAmongNonEmpty ==
    pc = "done" =>
        /\ Len(written) <= Cardinality(nonempty_bodies)
        /\ Cardinality(DOMAIN files) = Len(written)
        /\ (\/ \E j, k \in nonempty_bodies :
                  /\ j < k
                  /\ line_of(j) # <<>> /\ line_of(k) # <<>>
                  /\ norm_title(j) = norm_title(k)
            \/ \E k \in nonempty_bodies : line_of(k) = <<>>)
           => Len(written) < Cardinality(nonempty_bodies)

\* a finished run with two non-empty records of one title and a document written
C3_Witness ==
    /\ pc = "done"
    /\ Len(written) >= 1
    /\ \E j, k \in nonempty_bodies :
          /\ j < k
          /\ line_of(j) # <<>> /\ line_of(k) # <<>>
          /\ norm_title(j) = norm_title(k)

\* the first token of the date attribute of record k parses as DD.MM.YYYY
has_date(k) ==
    /\ messages[k].date # <<>>
    /\ split(messages[k].date[1]) # <<>>
    /\ strptime(split(messages[k].date[1])[1]) # <<>>

\* s is YYYY-MM-DD and names the day <<y, m, d>>
IsIsoDate(s, day) ==
    /\ Len(s) = 10
    /\ s[5] = "-" /\ s[8] = "-"
    /\ \A k \in {1, 2, 3, 4, 6, 7, 9, 10} : IsDigit(s[k])
    /\ int_of(SubSeq(s, 1, 4)) = day[1]
    /\ int_of(SubSeq(s, 6, 7)) = day[2]
    /\ int_of(SubSeq(s, 9, 10)) = day[3]

\* the lines of a tags list
RECURSIVE tag_lines(_)
tag_lines(tags) ==
    IF tags = <<>> THEN <<>>
    ELSE <<" ", " ", "-", " ">> \o Head(tags) \o <<"\n">> \o tag_lines(Tail(tags))

\* C6: every document written is '---', a 'date: YYYY-MM-DD' line exactly when the
\* record's date attribute parses, an 'author: "..."' line, a 'tags:' list exactly
\* when there are tags, '---', one blank line and the converted body.
C6_DocumentShape ==
    \A n \in 1..Len(written) :
        LET w == written[n]
            tags == get_tags_from_content(w.md_content, w.author)
            open == <<"-", "-", "-", "\n">>
            rest == SubSeq(w.final_content, Len(open) + 1, Len(w.final_content))
            date_len == IF has_date(w.idx) THEN Len(<<"d", "a", "t", "e", ":", " ", "0", "0", "0", "0", "-", "0", "0", "-", "0", "0", "\n">>) ELSE 0
            date_line == SubSeq(rest, 1, date_len)
            after == SubSeq(rest, date_len + 1, Len(rest))
        IN  /\ IsPrefix(open, w.final_content)
            /\ has_date(w.idx) =>
                  /\ IsPrefix(<<"d", "a", "t", "e", ":", " ">>, date_line)
                  /\ date_line[date_len] = "\n"
                  /\ IsIsoDate(SubSeq(date_line, 7, 16),
                               strptime(split(messages[w.idx].date[1])[1]))
            /\ after = <<"a", "u", "t", "h", "o", "r", ":", " ", "\"">> \o w.author \o <<"\"", "\n">>
                         \o (IF tags = <<>> THEN <<>> ELSE <<"t", "a", "g", "s", ":", "\n">> \o tag_lines(tags))
                         \o <<"-", "-", "-", "\n">> \o <<"\n">> \o w.md_content

\* one document with a date and two tags, and one with neither
C6_Witness ==
    /\ \E n \in 1..Len(written) :
          /\ has_date(written[n].idx)
          /\ Len(get_tags_from_content(written[n].md_content, written[n].author)) = 2
    /\ \E n \in 1..Len(written) :
          /\ ~has_date(written[n].idx)
          /\ get_tags_from_content(written[n].md_content, written[n].author) = <<>>

\* the title a document was written under
title_of(w) == SubSeq(w.filename, 1, Len(w.filename) - Len(<<".", "m", "d">>))

\* C7 as stated: when the first meaningful line holds emphasis markers, the title
\* retains them.
C7_TitleKeepsMarkers ==
    \A n \in 1..Len(written) :
        HasChar("*", line_of(written[n].idx)) => HasChar("*", title_of(written[n]))

\* the number of backticks of s
Backticks(s) == Cardinality({k \in 1..Len(s) : s[k] = "u0060"})

\* C7 as amended: '*' is in the normalizer's removed-character set, so no title
\* holds a '*' and "**Great design tips**" gives the title "Great design tips";
\* the backtick is not in the set, and a title within the length limit keeps
\* every backtick of its line.
C7_TitleDropsStars ==
    \A n \in 1..Len(written) :
        LET line == line_of(written[n].idx)
            title == title_of(written[n])
        IN  /\ ~HasChar("*", title)
            /\ line = <<"*", "*", "G", "r", "e", "a", "t", " ", "d", "e", "s", "i", "g", "n", " ", "t", "i", "p", "s", "*", "*">> => title = <<"G", "r", "e", "a", "t", " ", "d", "e", "s", "i", "g", "n", " ", "t", "i", "p", "s">>
            /\ Len(line) <= 100 => Backticks(title) = Backticks(line)

\* a document whose first meaningful line holds '*' and a backtick
C7_Witness ==
    \E n \in 1..Len(written) :
        /\ HasChar("*", line_of(written[n].idx))
        /\ HasChar("u0060", line_of(written[n].idx))

\* the maximal runs of s, each all newlines or free of them, in order
RECURSIVE runs(_)
runs(s) ==
    IF s = <<>> THEN <<>>
    ELSE LET differ == {k \in 2..Len(s) : (s[k] = "\n") # (s[1] = "\n")}
             len == IF differ = {} THEN Len(s) ELSE Min(differ) - 1
         IN  <<SubSeq(s, 1, len)>> \o runs(SubSeq(s, len + 1, Len(s)))

\* C8: the body of every document written is the converted text with each maximal
\* run of 3 or more newlines replaced by exactly 2 and every other run unchanged,
\* so it never holds 3 newlines in a row; the document ends with that body.
C8_NewlinesCollapsed ==
    \A n \in 1..Len(written) :
        LET w == written[n]
            raw == runs(converted[messages[w.idx]])
            out == runs(w.md_content)
        IN  /\ Len(out) = Len(raw)
            /\ \A k \in 1..Len(raw) :
                  out[k] = IF raw[k][1] = "\n" /\ Len(raw[k]) >= 3
                           THEN <<"\n", "\n">> ELSE raw[k]
            /\ ~Contains(<<"\n", "\n", "\n">>, w.md_content)
            /\ SubSeq(w.final_content,
                      Len(w.final_content) - Len(w.md_content) + 1,
                      Len(w.final_content)) = w.md_content

\* a document whose converted text had runs of 1, 2, 3 and 5 newlines
C8_Witness ==
    \E n \in 1..Len(written) :
        LET raw == runs(converted[messages[written[n].idx]])
        IN  \A len \in {1, 2, 3, 5} :
                \E k \in 1..Len(raw) : raw[k][1] = "\n" /\ Len(raw[k]) = len

\* the registry is the set of filenames written, each once, and the count its size
RegistryMatchesWrites ==
    /\ used_filenames = {written[n].filename : n \in 1..Len(written)}
    /\ used_filenames = DOMAIN files
    /\ Len(written) = Cardinality(used_filenames)
    /\ converted_count = Cardinality(used_filenames)
    /\ pc = "done" => reported = <<Cardinality(DOMAIN files)>>

\* C10: after any prefix of the records the registry has only grown, holds a
\* filename exactly when a document of that name was written in this run, and the
\* count equals its size: no filename is written twice and the reported count is
\* the number of distinct documents written.
C10_Registry ==
    /\ []RegistryMatchesWrites
    /\ [][used_filenames \subseteq used_filenames']_vars

\* a finished run that wrote two documents and dropped a duplicate
C10_Witness ==
    /\ pc = "done"
    /\ reported = <<2>>
    /\ Len(messages) = 3
    /\ nonempty_bodies = {1, 2, 3}
    /\ \A k \in 1..3 : derived[messages[k]] # <<>>

====
